---------------------------- MODULE Spec2Model ----------------------------
(***************************************************************************)
(* Model of the arbitrary-precision unsigned integer UInt of src/1.cpp and *)
(* of the functions built on it (div_mod, gcd, pow, the two multipliers).  *)
(*                                                                         *)
(* A UInt is its digit vector: a sequence of digits, least significant     *)
(* first (digits[0] of the source is element 1 here).  A failed assert()   *)
(* or a fault ends the program; an operator that would do so yields ABORT, *)
(* and every operator passes an ABORT operand on.                          *)
(*                                                                         *)
(* Scale.  TLC's integers are 32 bits wide, so the algorithms run at a     *)
(* reduced radix that keeps the relations the source relies on:            *)
(*    text radix 10            ->  TextRadix = 2                          *)
(*    WIDTH = 9                ->  WIDTH = 3                              *)
(*    BASE = 10^9 = 10^WIDTH   ->  BASE = TextRadix^WIDTH = 8 (even)      *)
(*    1000 = 10^(WIDTH/3)      ->  SUB = TextRadix^(WIDTH/3) = 2          *)
(*    int64 max, 9.22 * BASE^2 ->  INT64_MAX = 9 * BASE^2                 *)
(* Every loop, carry, borrow, estimate and comparison is the source's.     *)
(***************************************************************************)
EXTENDS Integers, Sequences, FiniteSets, TLC

TextRadix == 2
WIDTH == 3
BASE == TextRadix ^ WIDTH
SUB == TextRadix ^ (WIDTH \div 3)
INT64_MAX == 9 * BASE * BASE

ABORT == << -1 >>
IsAbort(u) == u = ABORT

Max(p, q) == IF p >= q THEN p ELSE q

\* a vector given by its elements, as an explicit sequence
Vec(f) == SubSeq(f, 1, Len(f))
Zeros(n) == Vec([k \in 1..n |-> 0])

(***************************************************************************)
(* normalize and the constructors                                          *)
(***************************************************************************)
TrimNone(ds) == ds

RECURSIVE Trim(_)
Trim(ds) ==
    IF Len(ds) > 1 /\ ds[Len(ds)] = 0
    THEN Trim(SubSeq(ds, 1, Len(ds) - 1))
    ELSE ds

\* digits.back() of an empty vector is an invalid read; the builds of the
\* source fault there (SIGSEGV), which ends the program like a failed assert.
Normalize(ds) ==
    IF ds = << >> THEN ABORT
    ELSE LET t == Trim(ds)
         IN  IF \A k \in 1..Len(t) : 0 <= t[k] /\ t[k] < BASE THEN t ELSE ABORT

RECURSIVE IntDigits(_)
IntDigits(number) ==
    IF number \div BASE > 0
    THEN << number % BASE >> \o IntDigits(number \div BASE)
    ELSE << number % BASE >>

UIntFromInt(number) ==
    IF number < 0 THEN ABORT ELSE Normalize(IntDigits(number))

UIntFromVec(ds) == Normalize(ds)

(***************************************************************************)
(* compare and the comparison operators                                    *)
(***************************************************************************)
RECURSIVE CompareFrom(_, _, _)
CompareFrom(x, y, i) ==
    IF i < 1 THEN 0
    ELSE IF x[i] > y[i] THEN 1
    ELSE IF x[i] < y[i] THEN -1
    ELSE CompareFrom(x, y, i - 1)

Compare(x, y) ==
    IF Len(x) > Len(y) THEN 1
    ELSE IF Len(x) < Len(y) THEN -1
    ELSE CompareFrom(x, y, Len(x))

Less(x, y) == Compare(x, y) < 0
GreaterEq(x, y) == Compare(x, y) >= 0
NotEqual(x, y) == Compare(x, y) # 0

(***************************************************************************)
(* operator+=                                                              *)
(***************************************************************************)
RECURSIVE AddShortLoop(_, _, _)
AddShortLoop(ds, i, rem) ==
    IF rem > 0
    THEN LET e == IF i > Len(ds) THEN Append(ds, 0) ELSE ds
             s == rem + e[i]
         IN  IF s >= BASE
             THEN AddShortLoop([e EXCEPT ![i] = s - BASE], i + 1, 1)
             ELSE AddShortLoop([e EXCEPT ![i] = s], i + 1, 0)
    ELSE ds

RECURSIVE AddLongLoop(_, _, _, _, _)
AddLongLoop(ds, other, s1, i, rem) ==
    IF i <= s1 \/ i <= Len(other) \/ rem > 0
    THEN LET e == IF i <= s1 THEN ds ELSE Append(ds, 0)
             d1 == e[i]
             d2 == IF i <= Len(other) THEN other[i] ELSE 0
             s == rem + d1 + d2
             div == s \div BASE
         IN  AddLongLoop([e EXCEPT ![i] = s - div * BASE], other, s1, i + 1, div)
    ELSE ds

RECURSIVE AddLong(_, _)
AddShort(ds, num) ==
    IF IsAbort(ds) \/ num < 0 THEN ABORT
    ELSE IF num >= BASE THEN AddLong(ds, UIntFromInt(num))
    ELSE Normalize(AddShortLoop(ds, 1, num))

AddLong(ds, other) ==
    IF IsAbort(ds) \/ IsAbort(other) THEN ABORT
    ELSE IF Len(other) = 1 THEN AddShort(ds, other[1])
    ELSE Normalize(AddLongLoop(ds, other, Len(ds), 1, 0))

(***************************************************************************)
(* operator-=                                                              *)
(***************************************************************************)
RECURSIVE SubShortLoop(_, _, _)
SubShortLoop(ds, i, rem) ==
    IF i <= Len(ds) /\ rem < 0
    THEN LET s == rem + ds[i]
         IN  IF s < 0
             THEN SubShortLoop([ds EXCEPT ![i] = s + BASE], i + 1, -1)
             ELSE SubShortLoop([ds EXCEPT ![i] = s], i + 1, 0)
    ELSE [digits |-> ds, rem |-> rem]

SubBreakAlways(i, s2) == TRUE

\* if (i >= s2) break;   (i counts from 0 in the source, from 1 here)
SubBreak(i, s2) == i - 1 >= s2

RECURSIVE SubLongLoop(_, _, _, _)
SubLongLoop(ds, other, i, rem) ==
    IF i <= Len(ds)
    THEN LET d2 == IF i <= Len(other) THEN other[i] ELSE 0
             s == rem + ds[i] - d2
         IN  IF s < 0
             THEN SubLongLoop([ds EXCEPT ![i] = s + BASE], other, i + 1, -1)
             ELSE IF SubBreak(i, Len(other))
                  THEN [digits |-> [ds EXCEPT ![i] = s], rem |-> 0]
                  ELSE SubLongLoop([ds EXCEPT ![i] = s], other, i + 1, 0)
    ELSE [digits |-> ds, rem |-> rem]

RECURSIVE SubLong(_, _)
SubShort(ds, num) ==
    IF IsAbort(ds) \/ num < 0 THEN ABORT
    ELSE IF num >= BASE THEN SubLong(ds, UIntFromInt(num))
    ELSE LET out == SubShortLoop(ds, 1, -num)
         IN  IF out.rem # 0 THEN ABORT ELSE Normalize(out.digits)

SubLong(ds, other) ==
    IF IsAbort(ds) \/ IsAbort(other) THEN ABORT
    ELSE IF Len(other) = 1 THEN SubShort(ds, other[1])
    ELSE IF Len(ds) < Len(other) THEN ABORT
    ELSE LET out == SubLongLoop(ds, other, 1, 0)
         IN  IF out.rem # 0 THEN ABORT ELSE Normalize(out.digits)

(***************************************************************************)
(* operator*=, slow_mult, fast_mult, mult                                  *)
(***************************************************************************)
RECURSIVE MulShortLoop(_, _, _, _)
MulShortLoop(ds, num, i, rem) ==
    IF i <= Len(ds)
    THEN LET s == rem + ds[i] * num
             div == s \div BASE
         IN  MulShortLoop([ds EXCEPT ![i] = s - div * BASE], num, i + 1, div)
    ELSE IF rem > 0 THEN Append(ds, rem) ELSE ds

RECURSIVE SlowRow(_, _, _, _, _, _)
SlowRow(temp, ds, other, i, j, rem) ==
    IF j <= Len(other)
    THEN LET s == rem + temp[i + j - 1] + ds[i] * other[j]
             div == s \div BASE
         IN  SlowRow([temp EXCEPT ![i + j - 1] = s - div * BASE],
                     ds, other, i, j + 1, div)
    ELSE IF rem > 0 THEN [temp EXCEPT ![i + Len(other)] = @ + rem] ELSE temp

RECURSIVE SlowRows(_, _, _, _)
SlowRows(temp, ds, other, i) ==
    IF i <= Len(ds)
    THEN SlowRows(SlowRow(temp, ds, other, i, 1, 0), ds, other, i + 1)
    ELSE temp

\* prepare: every digit becomes three sub-digits of radix SUB
Prepare(ds) ==
    Vec([k \in 1..(3 * Len(ds)) |->
            LET d == ds[(k - 1) \div 3 + 1]
                m == (k - 1) % 3
            IN  IF m = 0 THEN d % SUB
                ELSE IF m = 1 THEN (d \div SUB) % SUB
                ELSE d \div (SUB * SUB)])

RECURSIVE Pow2AtLeast(_, _)
Pow2AtLeast(n, m) == IF n < m THEN Pow2AtLeast(2 * n, m) ELSE n

TransformLenSingle(la, lb) == Pow2AtLeast(1, Max(la, lb))

\* n = 1; while (n < max(fa.size(), fb.size())) n *= 2;  n *= 2;
TransformLen(la, lb) == 2 * Pow2AtLeast(1, Max(la, lb))

Pad(f, n) == Vec([k \in 1..n |-> IF k <= Len(f) THEN f[k] ELSE 0])

RECURSIVE ConvSum(_, _, _, _, _, _)
ConvSum(fa, fb, n, k, lo, hi) ==
    IF lo = hi
    THEN IF fa[lo] = 0 THEN 0 ELSE fa[lo] * fb[((k - lo) % n) + 1]
    ELSE ConvSum(fa, fb, n, k, lo, (lo + hi) \div 2)
         + ConvSum(fa, fb, n, k, (lo + hi) \div 2 + 1, hi)

\* fft(fa), fft(fb), fa[i] *= fb[i], fft(fa, invert): the transform of length
\* n turns the elementwise product into the cyclic convolution of length n,
\* summed by halves as the butterflies do.  The values are the exact reals
\* the long double coefficients approximate.
CyclicConvolution(fa, fb, n) ==
    Vec([k \in 1..n |-> ConvSum(fa, fb, n, k, 1, n)])

\* temp[i] = int64_t(fa[i].real() + 0.5), in halves: (2v + 1) / 2 truncated
RoundCoeff(v) == (2 * v + 1) \div 2

RECURSIVE CarryLoop(_, _, _, _)
CarryLoop(temp, n, i, carry) ==
    IF carry > 0 \/ i <= n
    THEN LET e == IF i > n THEN Append(temp, 0) ELSE temp
             t == e[i] + carry
             c == t \div SUB
         IN  CarryLoop([e EXCEPT ![i] = t - c * SUB], n, i + 1, c)
    ELSE temp

Regroup(temp, n) ==
    Vec([g \in 1..((n + 2) \div 3) |->
            LET i == 3 * (g - 1) + 1
                c == temp[i]
                b == IF i + 1 <= n THEN temp[i + 1] ELSE 0
                a == IF i + 2 <= n THEN temp[i + 2] ELSE 0
            IN  c + SUB * (b + SUB * a)])

RECURSIVE Log2(_)
Log2(p) == IF p <= 1 THEN 0 ELSE 1 + Log2(p \div 2)

RECURSIVE Mult(_, _)
MulShort(ds, num) ==
    IF IsAbort(ds) \/ num < 0 THEN ABORT
    ELSE IF num >= BASE THEN Mult(ds, UIntFromInt(num))
    ELSE Normalize(MulShortLoop(ds, num, 1, 0))

slow_mult(ds, other) ==
    IF IsAbort(ds) \/ IsAbort(other) THEN ABORT
    ELSE IF Len(other) = 1 THEN MulShort(ds, other[1])
    ELSE UIntFromVec(SlowRows(Zeros(Len(ds) + Len(other)), ds, other, 1))

Rounded(conv, n) == Vec([k \in 1..n |-> RoundCoeff(conv[k])])

FastProduct(fa, fb, n) ==
    UIntFromVec(Regroup(CarryLoop(
        Rounded(CyclicConvolution(Pad(fa, n), Pad(fb, n), n), n), n, 1, 0), n))

fast_mult(ds, other) ==
    IF IsAbort(ds) \/ IsAbort(other) THEN ABORT
    ELSE IF Len(other) = 1 THEN MulShort(ds, other[1])
    ELSE FastProduct(Prepare(ds), Prepare(other),
                     TransformLen(3 * Len(ds), 3 * Len(other)))

\* op2 = 3 * pow * log(pow) / log(2), pow a power of two
Mult(ds, other) ==
    IF IsAbort(ds) \/ IsAbort(other) THEN ABORT
    ELSE LET len1 == Len(ds)
             len2 == Len(other)
             pow == 2 * Pow2AtLeast(1, 3 * Max(len1, len2))
             op1 == len1 * len2
             op2 == 3 * pow * Log2(pow)
         IN  IF op1 >= 15 * op2 THEN fast_mult(ds, other)
             ELSE slow_mult(ds, other)

(***************************************************************************)
(* operator/=(int64_t), operator%(UInt, int64_t), div_mod                  *)
(***************************************************************************)
\* a native signed integer: out of range is signed overflow (undefined);
\* the value kept is the wrapped one, and the overflow is recorded.
Wrap(v) ==
    ((v + INT64_MAX + 1) % (2 * (INT64_MAX + 1))) - (INT64_MAX + 1)

Overflows(v) == v > INT64_MAX \/ v < -INT64_MAX - 1

\* C++ remainder: the sign of the dividend
CRem(v, num) == IF v >= 0 THEN v % num ELSE -((-v) % num)

RECURSIVE DivShortLoop(_, _, _, _)
DivShortLoop(ds, num, j, rem) ==
    IF j >= 1
    THEN LET s == rem * BASE + ds[j]
             div == s \div num
         IN  DivShortLoop([ds EXCEPT ![j] = div], num, j - 1, s - div * num)
    ELSE ds

\* rem of operator%(const UInt&, int64_t), with whether a step overflowed
RECURSIVE ModShortLoop(_, _, _, _, _)
ModShortLoop(ds, num, i, rem, ovf) ==
    IF i >= 1
    THEN LET s == rem * BASE + ds[i]
         IN  ModShortLoop(ds, num, i - 1, CRem(Wrap(s), num),
                          ovf \/ Overflows(rem * BASE) \/ Overflows(s))
    ELSE [rem |-> rem, ovf |-> ovf]

ModShort(ds, num) ==
    IF IsAbort(ds) \/ num <= 0 THEN [rem |-> -1, ovf |-> FALSE, abort |-> TRUE]
    ELSE LET out == ModShortLoop(ds, num, Len(ds), 0, FALSE)
         IN  [rem |-> out.rem, ovf |-> out.ovf, abort |-> FALSE]

NormFactorNone(back) == 1

\* norm = BASE / (other.digits.back() + 1)
NormFactor(back) == BASE \div (back + 1)

EstimateLow(r, b) ==
    LET b_size == Len(b)
        s2 == IF Len(r) <= b_size - 1 THEN 0 ELSE r[b_size]
    IN  s2 \div b[Len(b)]

\* s1, s2 and d = (BASE * s1 + s2) / b.digits.back()
Estimate(r, b) ==
    LET b_size == Len(b)
        s1 == IF Len(r) <= b_size THEN 0 ELSE r[b_size + 1]
        s2 == IF Len(r) <= b_size - 1 THEN 0 ELSE r[b_size]
    IN  (BASE * s1 + s2) \div b[Len(b)]

\* while (r < temp) { r += b; --d; }, counting the passes
RECURSIVE CorrectLoop(_, _, _, _, _)
CorrectLoop(r, temp, b, d, k) ==
    IF Less(r, temp)
    THEN CorrectLoop(AddLong(r, b), temp, b, d - 1, k + 1)
    ELSE [r |-> r, d |-> d, decs |-> k]

\* r -= temp; q.digits[i] = d
DivStore(c, temp, est) ==
    [r |-> SubLong(c.r, temp), est |-> est, d |-> c.d, decs |-> c.decs]

DivCorrected(r1, b, est, temp) ==
    DivStore(CorrectLoop(r1, temp, b, est, 0), temp, est)

\* auto temp = b * d
DivEstimated(r1, b, est) == DivCorrected(r1, b, est, MulShort(b, est))

\* one pass of the digit loop of div_mod: the new r, the estimate, the digit
\* stored and the number of corrections.  r *= BASE; r += a.digits[i]; ...
DivDigitFrom(r1, b) == DivEstimated(r1, b, Estimate(r1, b))

DivDigit(r, ai, b) == DivDigitFrom(AddShort(MulShort(r, BASE), ai), b)

DivLoopStore(a, b, i, q, s) == [i |-> i - 1, q |-> [q EXCEPT ![i] = s.d], r |-> s.r]

RECURSIVE DivLoop(_, _, _, _, _)
DivLoopNext(a, b, st) == DivLoop(a, b, st.i, st.q, st.r)

DivLoop(a, b, i, q, r) ==
    IF i >= 1 /\ ~IsAbort(r)
    THEN DivLoopNext(a, b, DivLoopStore(a, b, i, q, DivDigit(r, a[i], b)))
    ELSE [q |-> q, r |-> r]

DivResult(q, r) ==
    IF IsAbort(q) \/ IsAbort(r) THEN [q |-> ABORT, r |-> ABORT]
    ELSE [q |-> q, r |-> r]

\* the int64_t that operator% returns, converted to the pair's UInt
ModResult(m) == IF m.abort THEN ABORT ELSE UIntFromInt(m.rem)

RECURSIVE div_mod(_, _)
DivShort(ds, num) ==
    IF IsAbort(ds) \/ num <= 0 THEN ABORT
    ELSE IF num >= BASE THEN div_mod(ds, UIntFromInt(num)).q
    ELSE Normalize(DivShortLoop(ds, num, Len(ds), 0))

\* return {q.normalize(), r /= norm}
DivModFinish(out, norm) == DivResult(Normalize(out.q), DivShort(out.r, norm))

DivModScaled(a, b, norm) ==
    DivModFinish(DivLoop(a, b, Len(a), Zeros(Len(a)), << 0 >>), norm)

\* a = *this * norm, b = other * norm
DivModLong(x, other, norm) ==
    DivModScaled(MulShort(x, norm), MulShort(other, norm), norm)

div_mod(x, other) ==
    IF IsAbort(x) \/ IsAbort(other) THEN DivResult(ABORT, ABORT)
    ELSE IF Len(other) = 1
    THEN DivResult(DivShort(x, other[1]), ModResult(ModShort(x, other[1])))
    ELSE DivModLong(x, other, NormFactor(other[Len(other)]))

Div(x, other) == div_mod(x, other).q
Mod(x, other) == div_mod(x, other).r

(***************************************************************************)
(* the free operators, gcd and pow                                         *)
(***************************************************************************)
Add(a, b) == AddLong(a, b)
Sub(a, b) == SubLong(a, b)
AddRight(a, n) == AddShort(a, n)

\* UInt operator+(const int64_t a, const UInt& b) { return b * a; }
AddLeft(n, a) == MulShort(a, n)

RECURSIVE gcd(_, _)
gcd(a, b) ==
    IF IsAbort(a) \/ IsAbort(b) THEN ABORT
    ELSE IF NotEqual(b, UIntFromInt(0)) THEN gcd(b, Mod(a, b))
    ELSE a

PowReduceDiv(a, mod) == Div(a, UIntFromInt(mod))

\* a %= mod;   (mod converts to UInt)
PowReduce(a, mod) == Mod(a, UIntFromInt(mod))

\* if (n % 2 != 0) res *= a
PowAccumulate(res, a, n) == IF n % 2 # 0 THEN Mult(res, a) ELSE res

\* a *= a;  and, with a modulus, a %= mod
PowSquare(a, mod) ==
    IF mod = -1 THEN Mult(a, a) ELSE PowReduce(Mult(a, a), mod)

RECURSIVE PowLoop(_, _, _, _)
PowLoopNext(res1, a2, n, mod) ==
    IF IsAbort(res1) \/ IsAbort(a2) THEN ABORT
    ELSE PowLoop(res1, a2, n \div 2, mod)

PowLoop(res, a, n, mod) ==
    IF n > 0
    THEN PowLoopNext(PowAccumulate(res, a, n), PowSquare(a, mod), n, mod)
    ELSE res

pow(a, n, mod) == IF IsAbort(a) THEN ABORT ELSE PowLoop(UIntFromInt(1), a, n, mod)

\* the number a digit vector stands for (the model's reference, not code)
RECURSIVE Value(_)
Value(ds) == IF ds = << >> THEN 0 ELSE ds[1] + BASE * Value(Tail(ds))

(***************************************************************************)
(* UInt(const std::string&)                                                *)
(***************************************************************************)
Chars == {"0", "1", "-"}
IsDigitChar(c) == c \in {"0", "1"}
CharVal(c) == IF c = "1" THEN 1 ELSE 0

RECURSIVE DigitRun(_, _)
DigitRun(g, k) ==
    IF k <= Len(g) /\ IsDigitChar(g[k]) THEN DigitRun(g, k + 1) ELSE k - 1

RECURSIVE TextValue(_, _, _)
TextValue(g, from, to) ==
    IF to < from THEN 0
    ELSE TextRadix * TextValue(g, from, to - 1) + CharVal(g[to])

\* std::stoi: an optional sign, then the longest run of digits; no digit at
\* all throws std::invalid_argument, which nothing catches
Stoi(g) ==
    LET first == IF Len(g) >= 1 /\ g[1] = "-" THEN 2 ELSE 1
        last == DigitRun(g, first)
    IN  IF last < first THEN [ok |-> FALSE, val |-> 0]
        ELSE [ok |-> TRUE,
              val |-> IF first = 2 THEN -TextValue(g, first, last)
                      ELSE TextValue(g, first, last)]

RECURSIVE StrGroups(_, _, _)
StrGroups(s, idGroup, nGroups) ==
    IF idGroup <= nGroups
    THEN << SubSeq(s, Len(s) - idGroup * WIDTH + 1,
                      Len(s) - (idGroup - 1) * WIDTH) >>
         \o StrGroups(s, idGroup + 1, nGroups)
    ELSE IF Len(s) % WIDTH # 0 THEN << SubSeq(s, 1, Len(s) % WIDTH) >>
    ELSE << >>

StoiAll(groups) ==
    IF \E k \in 1..Len(groups) : ~Stoi(groups[k]).ok THEN ABORT
    ELSE Normalize(Vec([k \in 1..Len(groups) |-> Stoi(groups[k]).val]))

UIntFromStr(s) == StoiAll(StrGroups(s, 1, Len(s) \div WIDTH))

(***************************************************************************)
(* Bounds and the operands drawn within them                               *)
(***************************************************************************)
MaxLenA == 3
MaxLenB == 2
MaxLenX == 2
MaxExp == 3
MaxStrLen == 4

DigitSamples == {0, 1, BASE \div 2, BASE - 1}

RECURSIVE VecsUpTo(_, _)
VecsUpTo(S, l) ==
    IF l = 0 THEN {<< >>}
    ELSE LET shorter == VecsUpTo(S, l - 1)
         IN  shorter \cup {Append(v, e) : v \in shorter, e \in S}

\* the UInt values of at most l digits, every digit a sample
UInts(l) == {Normalize(v) : v \in VecsUpTo(DigitSamples, l) \ {<< >>}}

Zero == UIntFromInt(0)

VARIABLES
    x,      \* the digits of the UInt object the member operators act on
    a, b,   \* the operands of a free function call
    n, m,   \* its native arguments: exponent or scalar, and modulus
    pc,     \* the operation last completed, or the position in a function
    res,    \* what the call returned
    norm, sa, sb, i, q, r, est, d, decs,  \* div_mod: norm, a, b, i, q, r, d
    ga, gb, \* gcd: a, b
    pr, pa, pn  \* pow: res, a, n

vars == << x, a, b, n, m, pc, res, norm, sa, sb, i, q, r, est, d, decs,
           ga, gb, pr, pa, pn >>

divVars == << norm, sa, sb, i, q, r, est, d, decs >>
gcdVars == << ga, gb >>
powVars == << pr, pa, pn >>
argVars == << a, b, n, m >>

NoDiv ==
    /\ norm = 0 /\ sa = Zero /\ sb = Zero /\ i = 0 /\ q = Zero /\ r = Zero
    /\ est = 0 /\ d = 0 /\ decs = 0
NoGcd == ga = Zero /\ gb = Zero
NoPow == pr = Zero /\ pa = Zero /\ pn = 0
NoArgs == a = Zero /\ b = Zero /\ n = 0 /\ m = 0

(***************************************************************************)
(* Spec: one UInt object, its constructors and its compound assignments    *)
(***************************************************************************)
NativeSamples == {-1, 0, 1, BASE - 1, BASE, BASE + 1, BASE * BASE - 1}
RawDigitSamples == {-1, 0, 1, BASE - 1, BASE}
RawVectors == VecsUpTo(RawDigitSamples, MaxLenX)
Texts == VecsUpTo(Chars, MaxStrLen)
OperandDigits == {0, 1, BASE - 1}
Operands == {Normalize(v) : v \in VecsUpTo(OperandDigits, MaxLenX) \ {<< >>}}

\* the operation ends: the object holds value, or the program has aborted;
\* the guard keeps the object within MaxLenX digits
Holds(name, value) ==
    /\ Len(value) <= MaxLenX
    /\ x' = value
    /\ pc' = IF IsAbort(value) THEN "aborted" ELSE name
    /\ UNCHANGED << argVars, res, divVars, gcdVars, powVars >>

\* a constructor runs once, on the declared object
Constructs(name, value) == pc = "declared" /\ Holds(name, value)

\* a compound assignment runs on a constructed object of a live program
Becomes(name, value) == pc \notin {"declared", "aborted"} /\ Holds(name, value)

Init ==
    /\ x = << >>
    /\ pc = "declared"
    /\ res = << >>
    /\ NoArgs /\ NoDiv /\ NoGcd /\ NoPow

CtorInt == \E k \in NativeSamples : Constructs("ctor_int", UIntFromInt(k))
CtorVec == \E v \in RawVectors : Constructs("ctor_vec", UIntFromVec(v))
CtorStr == \E t \in Texts : Constructs("ctor_str", UIntFromStr(t))
AddAssignInt == \E k \in NativeSamples : Becomes("add_int", AddShort(x, k))
AddAssign == \E u \in Operands : Becomes("add", AddLong(x, u))
SubAssignInt == \E k \in NativeSamples : Becomes("sub_int", SubShort(x, k))
SubAssign == \E u \in Operands : Becomes("sub", SubLong(x, u))
MulAssignInt == \E k \in NativeSamples : Becomes("mul_int", MulShort(x, k))
MulAssign == \E u \in Operands : Becomes("mul", Mult(x, u))
DivAssignInt == \E k \in NativeSamples : Becomes("div_int", DivShort(x, k))
DivAssign == \E u \in Operands : Becomes("div", Div(x, u))
ModAssign == \E u \in Operands : Becomes("mod", Mod(x, u))

Next ==
    \/ CtorInt \/ CtorVec \/ CtorStr
    \/ AddAssignInt \/ AddAssign \/ SubAssignInt \/ SubAssign
    \/ MulAssignInt \/ MulAssign \/ DivAssignInt \/ DivAssign \/ ModAssign

Spec == Init /\ [][Next]_vars

(***************************************************************************)
(* SpecDivMod: a.div_mod(b), one action per pass of its digit loop         *)
(***************************************************************************)
InitDivMod ==
    /\ a \in UInts(MaxLenA)
    /\ b \in UInts(MaxLenB)
    /\ n = 0 /\ m = 0
    /\ x = Zero
    /\ pc = "start"
    /\ res = << >>
    /\ NoDiv /\ NoGcd /\ NoPow

DivModShortCall(out) ==
    /\ pc' = IF IsAbort(out.q) THEN "aborted" ELSE "done"
    /\ q' = out.q
    /\ r' = out.r
    /\ UNCHANGED << norm, sa, sb, i >>

DivModLongCall(f, scaled) ==
    /\ norm' = f
    /\ sa' = scaled
    /\ sb' = MulShort(b, f)
    /\ q' = Zeros(Len(scaled))
    /\ r' = Zero
    /\ i' = Len(scaled)
    /\ pc' = "loop"

DivModScale(f) == DivModLongCall(f, MulShort(a, f))

DivModCall ==
    /\ pc = "start"
    /\ IF Len(b) = 1 THEN DivModShortCall(div_mod(a, b))
       ELSE DivModScale(NormFactor(b[Len(b)]))
    /\ UNCHANGED << x, argVars, res, est, d, decs, gcdVars, powVars >>

DivModStore(s) ==
    /\ r' = s.r
    /\ est' = s.est
    /\ d' = s.d
    /\ decs' = s.decs
    /\ q' = [q EXCEPT ![i] = s.d]
    /\ pc' = IF IsAbort(s.r) THEN "aborted" ELSE "loop"

DivModDigit ==
    /\ pc = "loop"
    /\ i >= 1
    /\ DivModStore(DivDigit(r, sa[i], sb))
    /\ i' = i - 1
    /\ UNCHANGED << x, argVars, res, norm, sa, sb, gcdVars, powVars >>

DivModReturned(out) ==
    /\ q' = out.q
    /\ r' = out.r
    /\ pc' = IF IsAbort(out.q) THEN "aborted" ELSE "done"

DivModReturn ==
    /\ pc = "loop"
    /\ i = 0
    /\ DivModReturned(DivModFinish([q |-> q, r |-> r], norm))
    /\ UNCHANGED << x, argVars, res, norm, sa, sb, i, est, d, decs,
                    gcdVars, powVars >>

NextDivMod == DivModCall \/ DivModDigit \/ DivModReturn

SpecDivMod == InitDivMod /\ [][NextDivMod]_vars

(***************************************************************************)
(* SpecGcd: gcd(a, b), one action per pass of its loop                     *)
(***************************************************************************)
InitGcd ==
    /\ a \in UInts(MaxLenB)
    /\ b \in UInts(MaxLenB)
    /\ n = 0 /\ m = 0
    /\ x = Zero
    /\ pc = "start"
    /\ res = << >>
    /\ NoDiv /\ NoGcd /\ NoPow

GcdNextDiv(u, v) == [a |-> v, b |-> Div(u, v)]

\* auto rem = a % b; a = b; b = rem;
GcdNext(u, v) == [a |-> v, b |-> Mod(u, v)]

GcdCall ==
    /\ pc = "start"
    /\ ga' = a
    /\ gb' = b
    /\ pc' = "loop"
    /\ UNCHANGED << x, argVars, res, divVars, powVars >>

GcdAssign(st) ==
    /\ ga' = st.a
    /\ gb' = st.b
    /\ pc' = IF IsAbort(st.b) THEN "aborted" ELSE "loop"

GcdStep ==
    /\ pc = "loop"
    /\ NotEqual(gb, UIntFromInt(0))
    /\ GcdAssign(GcdNext(ga, gb))
    /\ UNCHANGED << x, argVars, res, divVars, powVars >>

GcdReturn ==
    /\ pc = "loop"
    /\ ~NotEqual(gb, UIntFromInt(0))
    /\ res' = ga
    /\ pc' = "done"
    /\ UNCHANGED << x, argVars, divVars, gcdVars, powVars >>

NextGcd == GcdCall \/ GcdStep \/ GcdReturn

SpecGcd == InitGcd /\ [][NextGcd]_vars

(***************************************************************************)
(* SpecPow: pow(a, n, mod), one action per pass of its loop                *)
(***************************************************************************)
Moduli == {-1, 0, 1, 3, BASE - 1, BASE + 1}

InitPow ==
    /\ a \in UInts(MaxLenB)
    /\ b = Zero
    /\ n \in (-2)..MaxExp
    /\ m \in Moduli
    /\ x = Zero
    /\ pc = "start"
    /\ res = << >>
    /\ NoDiv /\ NoGcd /\ NoPow

PowCall ==
    /\ pc = "start"
    /\ pr' = UIntFromInt(1)
    /\ pa' = a
    /\ pn' = n
    /\ pc' = "loop"
    /\ UNCHANGED << x, argVars, res, divVars, gcdVars >>

PowAssign(res1, a2) ==
    /\ pr' = res1
    /\ pa' = a2
    /\ pc' = IF IsAbort(res1) \/ IsAbort(a2) THEN "aborted" ELSE "loop"

PowStep ==
    /\ pc = "loop"
    /\ pn > 0
    /\ PowAssign(PowAccumulate(pr, pa, pn), PowSquare(pa, m))
    /\ pn' = pn \div 2
    /\ UNCHANGED << x, argVars, res, divVars, gcdVars >>

PowReturn ==
    /\ pc = "loop"
    /\ ~(pn > 0)
    /\ res' = pr
    /\ pc' = "done"
    /\ UNCHANGED << x, argVars, divVars, gcdVars, powVars >>

NextPow == PowCall \/ PowStep \/ PowReturn

SpecPow == InitPow /\ [][NextPow]_vars

(***************************************************************************)
(* SpecAdd: a + b, b + a, a + n, n + a with n the native value of b, and   *)
(* (a - b) + b                                                             *)
(***************************************************************************)
InitAdd ==
    /\ a \in UInts(MaxLenA)
    /\ b \in UInts(MaxLenB)
    /\ n = Value(b)
    /\ m = 0
    /\ x = Zero
    /\ pc = "start"
    /\ res = << >>
    /\ NoDiv /\ NoGcd /\ NoPow

AddCall ==
    /\ pc = "start"
    /\ res' = [ab |-> Add(a, b), ba |-> Add(b, a),
               an |-> AddRight(a, n), na |-> AddLeft(n, a),
               au |-> Add(a, UIntFromInt(n))]
    /\ pc' = "added"
    /\ UNCHANGED << x, argVars, divVars, gcdVars, powVars >>

SubAddResult(diff) ==
    /\ res' = [diff |-> diff, back |-> Add(diff, b)]
    /\ pc' = IF IsAbort(diff) THEN "aborted" ELSE "subbed"

SubAddCall ==
    /\ pc = "start"
    /\ SubAddResult(Sub(a, b))
    /\ UNCHANGED << x, argVars, divVars, gcdVars, powVars >>

NextAdd == AddCall \/ SubAddCall

SpecAdd == InitAdd /\ [][NextAdd]_vars

(***************************************************************************)
(* SpecMult: a.slow_mult(b), a.fast_mult(b), a.mult(b)                     *)
(***************************************************************************)
InitMult ==
    /\ a \in UInts(MaxLenA)
    /\ b \in UInts(MaxLenB)
    /\ n = 0 /\ m = 0
    /\ x = Zero
    /\ pc = "start"
    /\ res = << >>
    /\ NoDiv /\ NoGcd /\ NoPow

Returns(name, value) ==
    /\ pc = "start"
    /\ res' = value
    /\ pc' = IF IsAbort(value) THEN "aborted" ELSE name
    /\ UNCHANGED << x, argVars, divVars, gcdVars, powVars >>

SlowMultCall == Returns("slow", slow_mult(a, b))
FastMultCall == Returns("fast", fast_mult(a, b))
MultCall == Returns("mult", Mult(a, b))

NextMult == SlowMultCall \/ FastMultCall \/ MultCall

SpecMult == InitMult /\ [][NextMult]_vars

(***************************************************************************)
(* SpecScalar: a / n and a % n for a native n                              *)
(***************************************************************************)
ScalarSamples == {1, 3, BASE - 1, BASE, BASE + 1, INT64_MAX \div BASE + 1}

InitScalar ==
    /\ a \in UInts(MaxLenA + 1)
    /\ b = Zero
    /\ n \in ScalarSamples
    /\ m = 0
    /\ x = Zero
    /\ pc = "start"
    /\ res = << >>
    /\ NoDiv /\ NoGcd /\ NoPow

ScalarDiv ==
    /\ pc = "start"
    /\ res' = [q |-> DivShort(a, n)]
    /\ pc' = "divided"
    /\ UNCHANGED << x, argVars, divVars, gcdVars, powVars >>

\* signed overflow is undefined: the build either wraps or traps
ScalarModResult(out) ==
    \/ /\ res' = out
       /\ pc' = "modded"
    \/ /\ out.ovf
       /\ res' = out
       /\ pc' = "aborted"

ScalarMod ==
    /\ pc = "start"
    /\ ScalarModResult(ModShort(a, n))
    /\ UNCHANGED << x, argVars, divVars, gcdVars, powVars >>

NextScalar == ScalarDiv \/ ScalarMod

SpecScalar == InitScalar /\ [][NextScalar]_vars

(***************************************************************************)
(* Properties                                                              *)
(***************************************************************************)
\* digits non-empty, every digit in [0, BASE), no most-significant zero
\* unless the value is zero (the state normalize leaves behind)
RepInv(ds) ==
    /\ Len(ds) >= 1
    /\ \A k \in 1..Len(ds) : ds[k] \in 0..(BASE - 1)
    /\ Len(ds) > 1 => ds[Len(ds)] # 0

\* C1: for every normalized a and every b > 0, single-digit or multi-digit,
\* div_mod(a, b) returns without a failed assertion a normalized pair (q, r)
\* with q * b + r = a and r < b.
C1_DivisionIdentity ==
    (pc \in {"done", "aborted"} /\ Value(b) > 0) =>
        /\ pc = "done"
        /\ RepInv(q) /\ RepInv(r)
        /\ Value(q) * Value(b) + Value(r) = Value(a)
        /\ Value(r) < Value(b)

\* a multi-digit divisor, a multi-digit quotient and a non-zero remainder
C1_Witness ==
    /\ pc = "done"
    /\ Len(b) > 1 /\ Len(q) > 1
    /\ Value(r) > 0

\* C2: after every constructor and after +=, -=, *=, /=, %=, whenever the
\* operation accepts its input, the digits are non-empty, in [0, BASE), and
\* carry no most-significant zero unless the value is zero.
C2_RepresentationInvariant ==
    pc \notin {"declared", "aborted"} => RepInv(x)

\* a subtraction that cancelled every digit leaves the single digit 0
C2_Witness == pc = "sub" /\ x = Zero

\* C3 as amended: for every a, n >= 0 and m > 0, pow(a, n, m) returns, and
\* its value is congruent modulo m to the value of pow(a mod m, n, m).
C3_PowCongruent ==
    (pc \in {"done", "aborted"} /\ n >= 0 /\ m > 0) =>
        /\ pc = "done"
        /\ RepInv(res)
        /\ Value(res) % m = Value(pow(Mod(a, UIntFromInt(m)), n, m)) % m

\* the two calls return different values that are congruent modulo m
C3_Witness ==
    /\ pc = "done"
    /\ n >= 2 /\ m > 1
    /\ Value(a) >= m
    /\ res # pow(Mod(a, UIntFromInt(m)), n, m)

\* C3 as stated: pow(a, n, m) returns the same value as pow(a mod m, n, m).
C3_PowEqual ==
    (pc = "done" /\ n >= 0 /\ m > 0) =>
        res = pow(Mod(a, UIntFromInt(m)), n, m)

\* C4 as stated: a + b = b + a, and n + a = a + n = a + UInt(n) for the
\* native scalar n.
C4_AddCommutes ==
    pc = "added" =>
        /\ res.ab = res.ba
        /\ res.na = res.an
        /\ res.an = res.au

\* C5 as stated: for every a and every native n > 0, a / n and a % n are the
\* quotient and remainder of div_mod(a, UInt(n)) and no intermediate of the
\* remainder pass overflows the signed 64-bit range.
C5_ScalarMatchesDivMod ==
    /\ pc # "aborted"
    /\ pc = "divided" => res.q = div_mod(a, UIntFromInt(n)).q
    /\ pc = "modded" =>
        /\ ~res.ovf
        /\ ~res.abort
        /\ UIntFromInt(res.rem) = div_mod(a, UIntFromInt(n)).r

\* C6 as stated: pow(a, n, mod) with n < 0 never returns a value.
C6_NegativeExponentAborts == n < 0 => pc # "done"

\* C7: for all normalized a, b no pass of gcd's loop fails, every pass
\* replaces the second operand by a strictly smaller normalized one (so the
\* loop is left after at most b passes), gcd(a, 0) = a, the result divides
\* a and b, and gcd(a, b) = gcd(b, a mod b) whenever b > 0.
C7_GcdInv ==
    /\ pc # "aborted"
    /\ (pc = "loop" /\ Value(gb) > 0) =>
        /\ RepInv(Mod(ga, gb))
        /\ Value(Mod(ga, gb)) < Value(gb)
    /\ pc = "done" =>
        /\ Value(b) = 0 => res = a
        /\ Value(res) = 0 => (Value(a) = 0 /\ Value(b) = 0)
        /\ Value(res) > 0 =>
            (Value(a) % Value(res) = 0 /\ Value(b) % Value(res) = 0)
        /\ Value(b) > 0 => res = gcd(b, Mod(a, b))

\* a common divisor above 1 found after more than one pass
C7_Witness ==
    /\ pc = "done"
    /\ Value(res) > 1
    /\ Value(res) < Value(b)
    /\ Value(b) < Value(a)
    /\ Value(a) % Value(b) # 0

C9_SubThenAdd ==
    (pc \in {"subbed", "aborted"} /\ Value(a) >= Value(b)) =>
        /\ pc = "subbed"
        /\ RepInv(res.diff)
        /\ Value(res.diff) = Value(a) - Value(b)
        /\ res.back = a

\* a borrow carried through a run of zero digits past the end of b
C9_Witness ==
    /\ pc = "subbed"
    /\ a = << 0, 0, 1 >>
    /\ b = << 1, 1 >>
    /\ res.diff = << BASE - 1, BASE - 2 >>

\* C10: at every digit position of multi-digit div_mod the estimate is not
\* below the true quotient digit, the correction loop decrements it at most
\* twice, and the digit stored is the true digit, in [0, BASE).
C10_EstimateBounded ==
    /\ Len(b) > 1 => pc # "aborted"
    /\ (pc = "loop" /\ i < Len(sa)) =>
        /\ Value(sb) > 0
        /\ est >= (Value(r) + d * Value(sb)) \div Value(sb)
        /\ decs = est - d
        /\ decs \in 0..2
        /\ d \in 0..(BASE - 1)
        /\ q[i + 1] = d
        /\ Value(r) \in 0..(Value(sb) - 1)

\* a digit position where the estimate was two too high
C10_Witness == pc = "loop" /\ i < Len(sa) /\ decs = 2

=============================================================================
